---- MODULE Spec2Model ----
(***************************************************************************)
(* Model of the growth engine of plant_growth_simulation (plant_sim.py,    *)
(* scalar_fields.py, plantsim_config.py).                                  *)
(*                                                                         *)
(* Number representation.  Every Python float is a fixed-point integer in  *)
(* thousandths: the float 0.35 is 350, the position 50.0 is 50000, the     *)
(* angle pi/2 is 1571 (milliradians).  Products are rescaled with Mul and  *)
(* rounded towards minus infinity.  FLOWER_CYCLE_START, the cycle counter  *)
(* and the list lengths are Python ints and stay plain integers.           *)
(***************************************************************************)
EXTENDS Integers, Sequences, FiniteSets, TLC

(***************************************************************************)
(* Bounds of the exploration.                                              *)
(***************************************************************************)
\* grow(cycles) is called with cycles in 0..MaxCycles
MaxCycles == 2
\* a cycle is only started while the plant has fewer branch segments
MaxBranches == 3

(***************************************************************************)
(* Fixed-point arithmetic for floats.                                      *)
(***************************************************************************)
\* np.pi in thousandths
Pi == 3142

Abs(a) == IF a < 0 THEN -a ELSE a

\* a * b for two fixed-point numbers
Mul(a, b) == (a * b) \div 1000

\* sin on [0, pi] (Bhaskara's rational approximation, exact at 0, pi/6,
\* pi/2, 5pi/6 and pi up to rounding)
SinHalf(b) ==
    LET p == b * (Pi - b)
    IN  (16 * p) \div ((5 * Pi * Pi - 4 * p) \div 1000)

\* np.sin: odd, 2pi-periodic
Sin(a) ==
    LET b == a % (2 * Pi)
    IN  IF b <= Pi THEN SinHalf(b) ELSE -SinHalf(b - Pi)

\* np.cos
Cos(a) == Sin(a + Pi \div 2)

\* np.exp(-t) for t >= 0: halved once per ln 2 = 0.693, fourth-order
\* Taylor polynomial on the remainder
ExpNeg(t) ==
    LET k  == t \div 693
        r  == t % 693
        r2 == Mul(r, r)
        r3 == Mul(r2, r)
        r4 == Mul(r3, r)
        p  == 1000 - r + r2 \div 2 - r3 \div 6 + r4 \div 24
    IN  IF k > 20 THEN 0 ELSE p \div (2 ^ k)

(***************************************************************************)
(* scalar_fields.py, evaluated at one point (the batch functions are       *)
(* element-wise maps).                                                     *)
(***************************************************************************)
sunlight_field(y, HEIGHT) == 500 + Mul(500, Sin((Pi * y) \div HEIGHT))

temperature_field(x, WIDTH) == 20000 + Mul(10000, Cos((Pi * x) \div WIDTH))

\* squares are taken on hundredths to stay inside 32-bit integers
moisture_field(x, y, WIDTH, HEIGHT) ==
    LET cx    == WIDTH \div 2
        cy    == HEIGHT \div 2
        sigma == WIDTH \div 4
        dx    == (x - cx) \div 10
        dy    == (y - cy) \div 10
        s10   == sigma \div 10
        t     == (dx * dx + dy * dy) \div ((2 * s10 * s10) \div 1000)
    IN  500 + Mul(500, ExpNeg(t))

(***************************************************************************)
(* plantsim_config.py: DEFAULT_PARAMS.                                     *)
(***************************************************************************)
DEFAULT_PARAMS ==
    [ WIDTH              |-> 100000,
      HEIGHT             |-> 100000,
      SOIL_DEPTH         |-> 20000,
      CYCLES             |-> 60,
      BASE_BRANCH_LEN    |-> 1000,
      BRANCH_ANGLE_RANGE |-> Pi \div 6,
      BRANCH_PROB        |-> 350,
      LEAF_BASE_SIZE     |-> 1500,
      BASE_ROOT_LEN      |-> 500,
      ROOT_ANGLE_RANGE   |-> Pi \div 8,
      FLOWER_CYCLE_START |-> 40,
      FLOWER_BASE_SIZE   |-> 5000,
      FLOWER_COLORS      |-> <<"red", "pink", "orange">> ]

\* the constructor calls Plant(x0, y0, params) the model runs: the default
\* parameters with an early flowering threshold and a shorter palette,
\*   - without bifurcation, planted at (WIDTH/2, 0) as gui.py does;
\*   - without bifurcation, planted off-centre and below the ground line;
\*   - with the default bifurcation probability, planted off-centre and
\*     below the ground line (its tips reach y = 0 after one cycle)
Scenarios ==
    { [ params |-> [DEFAULT_PARAMS EXCEPT !.BRANCH_PROB = 0,
                                          !.FLOWER_CYCLE_START = 1,
                                          !.FLOWER_COLORS = <<"red", "pink">>],
        x0 |-> 50000, y0 |-> 0 ],
      [ params |-> [DEFAULT_PARAMS EXCEPT !.BRANCH_PROB = 0,
                                          !.FLOWER_CYCLE_START = 2,
                                          !.FLOWER_COLORS = <<"red", "pink">>],
        x0 |-> 30000, y0 |-> -1000 ],
      [ params |-> [DEFAULT_PARAMS EXCEPT !.FLOWER_CYCLE_START = 2,
                                          !.FLOWER_COLORS = <<"red">>],
        x0 |-> 30000, y0 |-> -1000 ] }

\* sample values of the uniform draws in [0, 1)
RandVals == {0, 750}

(***************************************************************************)
(* State.                                                                  *)
(***************************************************************************)
VARIABLES
    params,        \* Plant.params
    branch_tips,   \* Plant.branch_tips: sequence of [pos, angle]
    branches,      \* Plant.branches: sequence of <<s, e>>
    leaves,        \* Plant.leaves: sequence of [pos, size]
    root_tips,     \* Plant.root_tips
    roots,         \* Plant.roots
    flowers,       \* Plant.flowers: sequence of [pos, size, color]
    pc,            \* "constructed", "above", "below", "returned"
    cycles,        \* argument of the running (or last) grow call
    cycle,         \* loop variable of grow, 0 before the first iteration
    b0, r0, l0, t0, f0,   \* lengths recorded at the top of an iteration
    pos, ang, rb, gf,     \* locals of the above-ground phase
    x0, y0,        \* constructor arguments
    requested,     \* sum of the cycles arguments of all grow calls so far
    total          \* number of completed loop iterations

plant == <<branch_tips, branches, leaves, root_tips, roots, flowers>>
frame == <<b0, r0, l0, t0, f0, pos, ang, rb, gf>>
vars  == <<params, plant, pc, cycles, cycle, frame, x0, y0, requested, total>>

(***************************************************************************)
(* plant_sim.py: branch_growth.                                            *)
(***************************************************************************)
\* line 38
GrowthFactor(x, y, WIDTH, HEIGHT) ==
    LET sun   == sunlight_field(y, HEIGHT)
        temp  == temperature_field(x, WIDTH)
        water == moisture_field(x, y, WIDTH, HEIGHT)
    IN  Mul(Mul(sun, water), 1000 - Abs(temp - 25000) \div 50)

branch_growth(x_arr, y_arr, angle_arr, rand_off, rand_br, BASE_BRANCH_LEN, BRANCH_ANGLE_RANGE, WIDTH, HEIGHT) ==
    LET n      == Len(x_arr)
        gf_arr == [i \in 1..n |-> GrowthFactor(x_arr[i], y_arr[i], WIDTH, HEIGHT)]
        length == [i \in 1..n |-> Mul(BASE_BRANCH_LEN, gf_arr[i])]
        theta  == [i \in 1..n |->
                     angle_arr[i] + Mul(rand_off[i] * 2 - 1000, BRANCH_ANGLE_RANGE)]
    IN  [ new_x   |-> [i \in 1..n |-> x_arr[i] + Mul(length[i], Cos(theta[i]))],
          new_y   |-> [i \in 1..n |-> y_arr[i] + Mul(length[i], Sin(theta[i]))],
          new_ang |-> theta,
          gf_arr  |-> gf_arr ]

(***************************************************************************)
(* plant_sim.py: Plant.grow, above-ground phase.                           *)
(***************************************************************************)
\* a plausible slip: the clamp tests the x coordinate
Clamp_WrongAxis(e) == IF e[1] < 0 THEN <<e[1], 0>> ELSE e

\* lines 89-90 and 98-99: the ground clamp
Clamp(e) == IF e[2] < 0 THEN <<e[1], 0>> ELSE e

\* list.append of lines 91, 92, 100, 101, 106 and 118, for the items of
\* one phase in the order they are appended
\* a plausible slip: insert(0, ...) instead of append
Extend_AtFront(list, items) == items \o list

Extend(list, items) == list \o items

\* a plausible slip: <= instead of <
Bifurcates_OrEqual(rb_i, gf_i, P) == rb_i <= Mul(P.BRANCH_PROB, gf_i)

\* line 94: the bifurcation test
Bifurcates(rb_i, gf_i, P) == rb_i < Mul(P.BRANCH_PROB, gf_i)

\* a plausible slip: the leaf is sized by the growth factor at its own
\* position, the end of the segment
Leaf_FactorAtEnd(e, gf_i, P) ==
    [pos |-> e, size |-> Mul(P.LEAF_BASE_SIZE, GrowthFactor(e[1], e[2], P.WIDTH, P.HEIGHT))]

\* lines 92 and 101
Leaf(e, gf_i, P) == [pos |-> e, size |-> Mul(P.LEAF_BASE_SIZE, gf_i)]

\* a plausible slip: the new tips are placed at the unclamped ends
TipStep_RawTip(i, pos_, ang_, g, rb_, u, P) ==
    LET s     == pos_[i]
        raw_e == <<g.new_x[i], g.new_y[i]>>
        e     == Clamp(raw_e)
        gf_i  == g.gf_arr[i]
        main  == [ branches |-> << <<s, e>> >>,
                   leaves   |-> << Leaf(e, gf_i, P) >>,
                   new_tips |-> << [pos |-> raw_e, angle |-> g.new_ang[i]] >> ]
    IN  IF Bifurcates(rb_[i], gf_i, P)
        THEN LET th2    == ang_[i] + Mul(u[i] * 2 - 1000, P.BRANCH_ANGLE_RANGE)
                 len2   == Mul(P.BASE_BRANCH_LEN, gf_i)
                 raw_e2 == <<s[1] + Mul(len2, Cos(th2)), s[2] + Mul(len2, Sin(th2))>>
                 e2     == Clamp(raw_e2)
             IN  [ branches |-> main.branches \o << <<s, e2>> >>,
                   leaves   |-> main.leaves \o << Leaf(e2, gf_i, P) >>,
                   new_tips |-> main.new_tips \o << [pos |-> raw_e2, angle |-> th2] >> ]
        ELSE main

\* lines 86-102: one iteration of the loop over the tips; u is the
\* random.random() draw of line 95, defined for the tips that bifurcate
TipStep(i, pos_, ang_, g, rb_, u, P) ==
    LET s     == pos_[i]
        raw_e == <<g.new_x[i], g.new_y[i]>>
        e     == Clamp(raw_e)
        gf_i  == g.gf_arr[i]
        main  == [ branches |-> << <<s, e>> >>,
                   leaves   |-> << Leaf(e, gf_i, P) >>,
                   new_tips |-> << [pos |-> e, angle |-> g.new_ang[i]] >> ]
    IN  IF Bifurcates(rb_[i], gf_i, P)
        THEN LET th2    == ang_[i] + Mul(u[i] * 2 - 1000, P.BRANCH_ANGLE_RANGE)
                 len2   == Mul(P.BASE_BRANCH_LEN, gf_i)
                 raw_e2 == <<s[1] + Mul(len2, Cos(th2)), s[2] + Mul(len2, Sin(th2))>>
                 e2     == Clamp(raw_e2)
             IN  [ branches |-> main.branches \o << <<s, e2>> >>,
                   leaves   |-> main.leaves \o << Leaf(e2, gf_i, P) >>,
                   new_tips |-> main.new_tips \o << [pos |-> e2, angle |-> th2] >> ]
        ELSE main

\* a plausible slip: the tips are processed last to first
RECURSIVE TipLoop_Reversed(_, _, _, _, _, _, _)
TipLoop_Reversed(i, pos_, ang_, g, rb_, u, P) ==
    IF i > Len(pos_)
    THEN [branches |-> <<>>, leaves |-> <<>>, new_tips |-> <<>>]
    ELSE LET head == TipStep(i, pos_, ang_, g, rb_, u, P)
             rest == TipLoop_Reversed(i + 1, pos_, ang_, g, rb_, u, P)
         IN  [ branches |-> rest.branches \o head.branches,
               leaves   |-> rest.leaves \o head.leaves,
               new_tips |-> rest.new_tips \o head.new_tips ]

\* lines 84-102: the loop over the tips, in index order; yields what the
\* loop appends to branches and leaves, and new_tips
RECURSIVE TipLoop(_, _, _, _, _, _, _)
TipLoop(i, pos_, ang_, g, rb_, u, P) ==
    IF i > Len(pos_)
    THEN [branches |-> <<>>, leaves |-> <<>>, new_tips |-> <<>>]
    ELSE LET head == TipStep(i, pos_, ang_, g, rb_, u, P)
             rest == TipLoop(i + 1, pos_, ang_, g, rb_, u, P)
         IN  [ branches |-> head.branches \o rest.branches,
               leaves   |-> head.leaves \o rest.leaves,
               new_tips |-> head.new_tips \o rest.new_tips ]

\* a plausible slip: the threshold is compared with the number of cycles
\* the plant has lived
Blooms_Lifetime(c, P) == total + 1 >= P.FLOWER_CYCLE_START

\* a plausible slip: > instead of >=
Blooms_Strict(c, P) == c > P.FLOWER_CYCLE_START

\* line 103: does this cycle flower
Blooms(c, P) == c >= P.FLOWER_CYCLE_START

\* a plausible slip: the flower is sized like a leaf
Bloom_LeafSized(new_tips, col, P) ==
    [k \in 1..Len(new_tips) |->
        [ pos   |-> new_tips[k].pos,
          size  |-> P.LEAF_BASE_SIZE,
          color |-> P.FLOWER_COLORS[col[k]] ]]

\* lines 104-106: one flower per new tip; col[k] is the index that
\* random.choice draws for the k-th tip
Bloom(new_tips, col, P) ==
    [k \in 1..Len(new_tips) |->
        [ pos   |-> new_tips[k].pos,
          size  |-> P.FLOWER_BASE_SIZE,
          color |-> P.FLOWER_COLORS[col[k]] ]]

\* a plausible slip: the operands of `or` are swapped
OrElse_Swapped(new, old) == IF old # <<>> THEN old ELSE new

\* lines 107 and 120: `new or old`
OrElse(new, old) == IF new # <<>> THEN new ELSE old

(***************************************************************************)
(* plant_sim.py: Plant.grow, below-ground phase.                           *)
(***************************************************************************)
\* a plausible slip: the root tip is kept next to its successor
RootStep_KeepsTip(rt, r, P) ==
    LET w      == moisture_field(rt.pos[1], rt.pos[2], P.WIDTH, P.HEIGHT)
        length == Mul(P.BASE_ROOT_LEN, w)
        th     == rt.angle + (-P.ROOT_ANGLE_RANGE + Mul(2 * P.ROOT_ANGLE_RANGE, r))
        e      == <<rt.pos[1] + Mul(length, Cos(th)), rt.pos[2] + Mul(length, Sin(th))>>
    IN  [ roots  |-> << <<rt.pos, e>> >>,
          new_rt |-> << rt, [pos |-> e, angle |-> th] >> ]

\* lines 110-119: one root tip; r is the draw behind random.uniform, which
\* returns a + (b - a) * random()
RootStep(rt, r, P) ==
    LET w      == moisture_field(rt.pos[1], rt.pos[2], P.WIDTH, P.HEIGHT)
        length == Mul(P.BASE_ROOT_LEN, w)
        th     == rt.angle + (-P.ROOT_ANGLE_RANGE + Mul(2 * P.ROOT_ANGLE_RANGE, r))
        e      == <<rt.pos[1] + Mul(length, Cos(th)), rt.pos[2] + Mul(length, Sin(th))>>
    IN  [ roots  |-> << <<rt.pos, e>> >>,
          new_rt |-> << [pos |-> e, angle |-> th] >> ]

\* lines 108-119: the loop over the root tips, in index order
RECURSIVE RootLoop(_, _, _, _)
RootLoop(i, tips, r, P) ==
    IF i > Len(tips)
    THEN [roots |-> <<>>, new_rt |-> <<>>]
    ELSE LET head == RootStep(tips[i], r[i], P)
             rest == RootLoop(i + 1, tips, r, P)
         IN  [ roots  |-> head.roots \o rest.roots,
               new_rt |-> head.new_rt \o rest.new_rt ]

(***************************************************************************)
(* Actions.                                                                *)
(***************************************************************************)
\* Plant.__init__
Init ==
    /\ \E sc \in Scenarios : params = sc.params /\ x0 = sc.x0 /\ y0 = sc.y0
    /\ branch_tips = << [pos |-> <<x0, y0>>, angle |-> Pi \div 2] >>
    /\ branches = <<>>
    /\ leaves = <<>>
    /\ root_tips = << [pos |-> <<x0, y0>>, angle |-> -(Pi \div 2)] >>
    /\ roots = <<>>
    /\ flowers = <<>>
    /\ pc = "constructed"
    /\ cycles = 0
    /\ cycle = 0
    /\ b0 = 0 /\ r0 = 0 /\ l0 = 0 /\ t0 = 0 /\ f0 = 0
    /\ pos = <<>> /\ ang = <<>> /\ rb = <<>> /\ gf = <<>>
    /\ requested = 0
    /\ total = 0

\* a plausible slip: the range runs one iteration too many
LoopContinues_OneMore(c, n) == c <= n

\* line 68: range(1, cycles + 1) has a next element after c
LoopContinues(c, n) == c < n

\* a call grow(k): lines 64-68, up to the first iteration or, when the
\* range is empty, to the return
Grow(k) ==
    /\ pc \in {"constructed", "returned"}
    /\ Len(branches) < MaxBranches
    /\ pc' = IF LoopContinues(0, k) THEN "above" ELSE "returned"
    /\ cycles' = k
    /\ cycle' = 0
    /\ requested' = requested + k
    /\ UNCHANGED <<params, plant, frame, x0, y0, total>>

\* lines 68-107: the top of an iteration and the above-ground phase
Above ==
    /\ pc = "above"
    /\ Len(branches) < MaxBranches
    /\ cycle' = cycle + 1
    /\ b0' = Len(branches) /\ r0' = Len(roots) /\ l0' = Len(leaves)
    /\ t0' = Len(branch_tips) /\ f0' = Len(flowers)
    /\ LET n == Len(branch_tips)
           P == params
       IN  IF n # 0
           THEN \E ro_ \in [1..n -> RandVals], rb_ \in [1..n -> RandVals] :
                  LET pos_ == [i \in 1..n |-> branch_tips[i].pos]
                      ang_ == [i \in 1..n |-> branch_tips[i].angle]
                      g    == branch_growth([i \in 1..n |-> pos_[i][1]],
                                            [i \in 1..n |-> pos_[i][2]],
                                            ang_, ro_, rb_,
                                            P.BASE_BRANCH_LEN, P.BRANCH_ANGLE_RANGE,
                                            P.WIDTH, P.HEIGHT)
                      bif  == {i \in 1..n : Bifurcates(rb_[i], g.gf_arr[i], P)}
                  IN  \E u \in [bif -> RandVals] :
                        LET out == TipLoop(1, pos_, ang_, g, rb_, u, P)
                            nfl == IF Blooms(cycle', P) THEN Len(out.new_tips) ELSE 0
                        IN  \E col \in [1..nfl -> 1..Len(P.FLOWER_COLORS)] :
                              /\ branches' = Extend(branches, out.branches)
                              /\ leaves' = Extend(leaves, out.leaves)
                              /\ flowers' = IF Blooms(cycle', P)
                                            THEN Extend(flowers, Bloom(out.new_tips, col, P))
                                            ELSE flowers
                              /\ branch_tips' = OrElse(out.new_tips, branch_tips)
                              /\ pos' = pos_ /\ ang' = ang_
                              /\ rb' = rb_ /\ gf' = g.gf_arr
           ELSE UNCHANGED <<branches, leaves, flowers, branch_tips, pos, ang, rb, gf>>
    /\ pc' = "below"
    /\ UNCHANGED <<params, root_tips, roots, cycles, x0, y0, requested, total>>

\* lines 108-125: the below-ground phase and the end of the iteration;
\* then the next iteration, or the return when the range is exhausted
Below ==
    /\ pc = "below"
    /\ \E r \in [1..Len(root_tips) -> RandVals] :
         LET out == RootLoop(1, root_tips, r, params)
         IN  /\ roots' = Extend(roots, out.roots)
             /\ root_tips' = OrElse(out.new_rt, root_tips)
    /\ total' = total + 1
    /\ pc' = IF LoopContinues(cycle, cycles) THEN "above" ELSE "returned"
    /\ UNCHANGED <<params, branch_tips, branches, leaves, flowers,
                   cycles, cycle, frame, x0, y0, requested>>

Next ==
    \/ \E k \in 0..MaxCycles : Grow(k)
    \/ Above
    \/ Below

Spec == Init /\ [][Next]_vars

(***************************************************************************)
(* Properties.                                                             *)
(***************************************************************************)
IsPrefix(a, b) == Len(a) <= Len(b) /\ SubSeq(b, 1, Len(a)) = a

Range(f) == {f[i] : i \in DOMAIN f}

\* the state a freshly constructed plant is in
Fresh ==
    /\ branches = <<>> /\ roots = <<>> /\ leaves = <<>> /\ flowers = <<>>
    /\ branch_tips = << [pos |-> <<x0, y0>>, angle |-> Pi \div 2] >>
    /\ root_tips = << [pos |-> <<x0, y0>>, angle |-> -(Pi \div 2)] >>

\* the frame variables describe a cycle of the current call
InCycle == cycle >= 1

\* C1: every branch segment, main or bifurcated, ends at y >= 0, whatever
\* the initial position, the angles and the draws (root segments are not
\* constrained: the witness has one that ends below the ground).
C1_BranchEndsAboveGround ==
    \A i \in 1..Len(branches) : branches[i][2][2] >= 0

\* a tip that started below the ground bifurcated, both of its segments
\* were clamped to y = 0, and a root segment ends at y < 0
C1_Witness ==
    /\ Len(branches) >= 2
    /\ branches[1][1] = branches[2][1]
    /\ branches[1][1][2] < 0
    /\ branches[1][2][2] = 0 /\ branches[2][2][2] = 0
    /\ \E j \in 1..Len(roots) : roots[j][2][2] < 0

\* C2: branches, roots, leaves and flowers are append-only and
\* index-stable: every step leaves the elements already present in place.
C2_AppendOnly ==
    [][ /\ IsPrefix(branches, branches')
        /\ IsPrefix(roots, roots')
        /\ IsPrefix(leaves, leaves')
        /\ IsPrefix(flowers, flowers') ]_vars

\* grow(2) and then grow(1) have returned, and each collection holds
\* elements of different cycles
C2_Witness ==
    /\ pc = "returned" /\ cycles = 1 /\ requested = 3 /\ total = 3
    /\ Len(branches) >= 3 /\ Len(roots) = 3 /\ Len(leaves) >= 3
    /\ Len(flowers) >= 1
    /\ branches[1] # branches[Len(branches)]

\* C3: the flowers appended in cycle c number the tips of that cycle's
\* next-generation tip set if c >= FLOWER_CYCLE_START, and 0 otherwise.
C3_FlowersPerCycle ==
    InCycle =>
        Len(flowers) - f0 = IF cycle >= params.FLOWER_CYCLE_START
                            THEN Len(branch_tips) ELSE 0

\* the second cycle of a call flowered on three or more new tips, and the
\* first cycle, which produced two tips, did not flower
C3_Witness ==
    /\ cycle = 2 /\ params.FLOWER_CYCLE_START = 2
    /\ t0 = 2 /\ f0 = 0
    /\ Len(branch_tips) >= 3
    /\ Len(flowers) = Len(branch_tips)

\* the test of the claim, on the draws and growth factors of the cycle
C4_Test(i) == rb[i] < Mul(params.BRANCH_PROB, gf[i])

\* index in new_tips of the main tip that tip i of the pre-cycle set yields
C4_Slot(i) == i + Cardinality({j \in 1..(i - 1) : C4_Test(j)})

\* C4: in a cycle, tip i of the pre-cycle set yields 2 tips if
\* rb[i] < BRANCH_PROB x gf[i] and 1 tip otherwise, so n tips become
\* n + (number of tips passing the test) tips.
C4_TipsPerTip ==
    InCycle =>
        /\ Len(branch_tips) = t0 + Cardinality({i \in 1..t0 : C4_Test(i)})
        /\ Len(branches) - b0 = Len(branch_tips)
        /\ \A i \in 1..t0 :
             \A k \in C4_Slot(i)..(C4_Slot(i + 1) - 1) :
                branches[b0 + k][1] = pos[i]

\* a cycle started with two tips, of which exactly one passed the test
C4_Witness ==
    /\ InCycle /\ t0 = 2
    /\ C4_Test(1) /\ ~C4_Test(2)
    /\ Len(branch_tips) = 3

\* C5: grow(0) on a fresh plant changes nothing: as long as only grow(0)
\* has been called, the collections are empty and the tip sets are the
\* initial singletons at (x0, y0) with angles pi/2 and -pi/2.
C5_GrowZero ==
    requested = 0 => Fresh

\* grow(0) has been called and has returned
C5_Witness ==
    pc = "returned" /\ requested = 0 /\ cycles = 0

\* C6: the tip sets are never empty; with BRANCH_PROB = 0 every cycle turns
\* the single branch tip into exactly one new tip, at the end of the one
\* branch segment the cycle appends.
C6_NeverEmpty ==
    /\ branch_tips # <<>>
    /\ root_tips # <<>>
    /\ params.BRANCH_PROB = 0 =>
         /\ Len(branch_tips) = 1
         /\ InCycle =>
              /\ t0 = 1
              /\ Len(branches) - b0 = 1
              /\ branch_tips[1].pos = branches[b0 + 1][2]
              /\ branches[b0 + 1][1] = pos[1]

\* without bifurcation, two cycles have run and the tip has moved
C6_Witness ==
    /\ params.BRANCH_PROB = 0
    /\ total = 2 /\ Len(branches) = 2
    /\ branch_tips[1].pos = branches[2][2]
    /\ branch_tips[1].pos # <<x0, y0>>
    /\ branch_tips[1].pos # branches[1][2]

\* C7: every flower has size FLOWER_BASE_SIZE and a colour of
\* FLOWER_COLORS; the flowers of a cycle sit at positions of tips of that
\* cycle's next-generation tip set; with BRANCH_PROB = 0 and
\* FLOWER_CYCLE_START = 1 a cycle creates exactly one flower, at the new tip.
C7_FlowerFields ==
    /\ \A k \in 1..Len(flowers) :
         /\ flowers[k].size = params.FLOWER_BASE_SIZE
         /\ flowers[k].color \in Range(params.FLOWER_COLORS)
    /\ InCycle =>
         \A k \in (f0 + 1)..Len(flowers) :
            \E t \in 1..Len(branch_tips) : flowers[k].pos = branch_tips[t].pos
    /\ (InCycle /\ params.BRANCH_PROB = 0 /\ params.FLOWER_CYCLE_START = 1) =>
         /\ Len(flowers) = f0 + 1
         /\ flowers[f0 + 1].pos = branch_tips[1].pos

\* the concrete scenario: one cycle from (50, 0) without bifurcation and
\* with FLOWER_CYCLE_START = 1 has created one flower at the new tip
C7_Witness ==
    /\ params.BRANCH_PROB = 0 /\ params.FLOWER_CYCLE_START = 1
    /\ x0 = 50000 /\ y0 = 0
    /\ pc = "returned" /\ total = 1
    /\ Len(flowers) = 1
    /\ flowers[1].pos = branch_tips[1].pos
    /\ flowers[1].pos # <<x0, y0>>

\* C8: leaves and branches are index-aligned: leaves[i] sits at the
\* clamped end of branches[i] and its size is LEAF_BASE_SIZE x the growth
\* factor at the start of branches[i], for main and bifurcated segments.
C8_LeavesAligned ==
    /\ Len(leaves) = Len(branches)
    /\ \A i \in 1..Len(branches) :
         /\ leaves[i].pos = branches[i][2]
         /\ leaves[i].size =
              Mul(params.LEAF_BASE_SIZE,
                  GrowthFactor(branches[i][1][1], branches[i][1][2],
                               params.WIDTH, params.HEIGHT))

\* a bifurcated pair of segments whose ends were clamped, and a later
\* segment whose start and end have different growth factors
C8_Witness ==
    /\ Len(branches) >= 3
    /\ branches[1][1] = branches[2][1]
    /\ branches[1][1][2] < 0 /\ branches[2][2][2] = 0
    /\ \E i \in 1..Len(branches) :
         GrowthFactor(branches[i][1][1], branches[i][1][2], params.WIDTH, params.HEIGHT)
           # GrowthFactor(branches[i][2][1], branches[i][2][2], params.WIDTH, params.HEIGHT)

\* C9: the below-ground phase appends one root segment and one successor
\* tip per root tip and nothing else: the number of root tips stays 1,
\* len(roots) is the number of cycles run, and branches, leaves, flowers
\* and branch_tips are left alone.
C9_RootPhase ==
    [][ /\ Len(root_tips') = 1
        /\ pc' # "below" => Len(roots') = total'
        /\ pc = "below" =>
             /\ Len(roots') = Len(roots) + Len(root_tips)
             /\ Len(root_tips') = Len(root_tips)
             /\ root_tips'[1].pos = roots'[Len(roots')][2]
             /\ UNCHANGED <<branches, leaves, flowers, branch_tips>> ]_vars

\* three below-ground phases have run on a plant that has bifurcated
C9_Witness ==
    /\ pc # "below" /\ total = 3
    /\ Len(roots) = 3 /\ Len(root_tips) = 1
    /\ Len(branches) > 3
    /\ root_tips[1].pos = roots[3][2]

\* C10: within a cycle, segments, leaves and new tips are appended in the
\* order of the pre-cycle tips; the second segment of a bifurcating tip
\* follows its main segment directly and has the same start; root segments
\* are appended in root-tip order.
C10_AppendOrder ==
    [][ /\ pc = "above" =>
             \A i \in 1..Len(branch_tips) :
                LET test == rb'[i] < Mul(params.BRANCH_PROB, gf'[i])
                    k    == i + Cardinality({j \in 1..(i - 1) :
                                rb'[j] < Mul(params.BRANCH_PROB, gf'[j])})
                    at   == Len(branches) + k
                IN  /\ branches'[at][1] = branch_tips[i].pos
                    /\ branches'[at][2] = branch_tips'[k].pos
                    /\ leaves'[Len(leaves) + k].pos = branch_tips'[k].pos
                    /\ test =>
                         /\ branches'[at + 1][1] = branches'[at][1]
                         /\ branches'[at + 1][2] = branch_tips'[k + 1].pos
                         /\ leaves'[Len(leaves) + k + 1].pos = branch_tips'[k + 1].pos
                    /\ (i = Len(branch_tips)) =>
                         Len(branches') = IF test THEN at + 1 ELSE at
        /\ pc = "below" =>
             \A j \in 1..Len(root_tips) :
                /\ roots'[Len(roots) + j][1] = root_tips[j].pos
                /\ roots'[Len(roots) + j][2] = root_tips'[j].pos ]_vars

\* a cycle started with two tips at different positions, the first one
\* bifurcated, and its two segments precede the segment of the second tip
C10_Witness ==
    /\ InCycle /\ t0 = 2
    /\ pos[1] # pos[2]
    /\ rb[1] < Mul(params.BRANCH_PROB, gf[1])
    /\ branches[b0 + 1][1] = pos[1]
    /\ branches[b0 + 2][1] = pos[1]
    /\ branches[b0 + 3][1] = pos[2]
    /\ branches[b0 + 1][2] # branches[b0 + 2][2]

\* C11: the flowering threshold is compared with the loop counter of the
\* running grow call, which every call restarts: a call starts with the
\* counter at 0, each iteration advances it by one up to the call's
\* argument, and flowers are appended only in an iteration whose counter
\* is >= FLOWER_CYCLE_START, however many cycles the plant has lived (so
\* calls with arguments below the threshold never flower, and
\* grow(a); grow(b) differs from grow(a + b)).
C11_ThresholdPerCall ==
    [][ /\ pc \in {"constructed", "returned"} => cycle' = 0
        /\ pc = "above" => (cycle' = cycle + 1 /\ cycle' <= cycles)
        /\ flowers' # flowers =>
             /\ pc = "above"
             /\ cycle' >= params.FLOWER_CYCLE_START
        /\ (pc = "above" /\ cycle' < params.FLOWER_CYCLE_START) =>
             flowers' = flowers ]_vars

\* grow(1); grow(1) has returned with FLOWER_CYCLE_START = 2: the plant has
\* lived two cycles, as many as the threshold, and has no flower
C11_Witness ==
    /\ pc = "returned" /\ cycles = 1 /\ cycle = 1
    /\ requested = 2 /\ total = 2
    /\ params.FLOWER_CYCLE_START = 2
    /\ total >= params.FLOWER_CYCLE_START
    /\ flowers = <<>>

\* C12: the plant is connected: a branch segment starts at the initial
\* position or at the end of a branch segment of an earlier cycle, a root
\* segment starts at the initial position or at the end of the root
\* segment of the previous cycle, and once a cycle has run every branch
\* (root) tip sits at the end of a branch (root) segment of the most
\* recent cycle (root phase).
C12_Connected ==
    /\ \A i \in 1..Len(branches) :
         \/ branches[i][1] = <<x0, y0>>
         \/ \E j \in 1..(i - 1) : branches[j][2] = branches[i][1]
    /\ \A i \in (b0 + 1)..Len(branches) :
         \/ branches[i][1] = <<x0, y0>>
         \/ \E j \in 1..b0 : branches[j][2] = branches[i][1]
    /\ \A i \in 1..Len(roots) :
         IF i = 1 THEN roots[i][1] = <<x0, y0>>
                  ELSE roots[i][1] = roots[i - 1][2]
    /\ Len(branches) > 0 =>
         \A t \in 1..Len(branch_tips) :
            \E j \in (b0 + 1)..Len(branches) : branches[j][2] = branch_tips[t].pos
    /\ Len(roots) > 0 =>
         \A t \in 1..Len(root_tips) :
            \E j \in (Len(roots) - Len(root_tips) + 1)..Len(roots) :
               roots[j][2] = root_tips[t].pos

\* two cycles have run from a start below the ground, the first one
\* bifurcated with clamped ends, and the second cycle grew on from them
C12_Witness ==
    /\ total = 2 /\ b0 = 2 /\ Len(branches) >= 4
    /\ y0 < 0
    /\ branches[1][2][2] = 0 /\ branches[2][2][2] = 0
    /\ branches[1][2] # branches[2][2]
    /\ branches[3][1] = branches[1][2]
    /\ branches[Len(branches)][1] = branches[2][2]
    /\ roots[2][1] = roots[1][2]
    /\ root_tips[1].pos = roots[2][2]

====
